---- MODULE Spec2Model ----
(***************************************************************************)
(* Model of KawasakiBackupClient (src/kawasaki_backup_client.py): the      *)
(* connect/retry loop, the login -> AUX -> SAVE -> header handshake, the   *)
(* streaming record parser, progress reporting, cancellation and cleanup.  *)
(* Bytes are integers 0..255; byte strings are sequences of bytes.         *)
(***************************************************************************)
EXTENDS Integers, Sequences, FiniteSets, TLC

\* ---------------------------------------------------------------- bytes
STX == 2
ENQ == 5
ACK == 6
LF == 10
CR == 13
ETB == 23
ChB == 66
ChD == 68
ChE == 69

\* ------------------------------------------------------------- bounds
MaxRecs == 2
MaxInterval == 2
MaxRetries == 3
MaxCancels == 1
MaxRunRecs == 1
MaxSlowReads == 2
MaxItems == 3

\* ------------------------------------------------- protocol constants
START_HEADER == <<ENQ, STX, ChB>>
SECOND_HEADER == <<STX, ChB, 32, 32, 32, 32, 48, ETB>>
ACK_BYTE == <<ACK>>
EOT_MARKER == <<ENQ, STX, ChE, ETB>>
\* b'SAVE/LOAD in progress'
SAVELOAD_IN_PROGRESS ==
    <<83, 65, 86, 69, 47, 76, 79, 65, 68, 32, 105, 110, 32,
      112, 114, 111, 103, 114, 101, 115, 115>>
\* b'login:'
LoginPrompt == <<108, 111, 103, 105, 110, 58>>
\* b'AUX', to be followed by one digit
AuxPrefix == <<65, 85, 88>>
Digits == 48..57
\* base_name 'b' is already safe, so safe_name = 'b'
safe_name == <<98>>
\* ext = 'as'
ext == <<97, 115>>
\* START_HEADER + safe_name + b'.' + ext + b'\x17'
HeaderMarker == START_HEADER \o safe_name \o <<46>> \o ext \o <<ETB>>
\* f"{username}\r\n" with the default username 'as'
LoginCmd == <<97, 115, CR, LF>>
\* f"SAVE {safe_name}\r\n" (full = False)
SaveCmd == <<83, 65, 86, 69, 32>> \o safe_name \o <<CR, LF>>

\* ------------------------------------------------------ byte helpers
Min(S) == CHOOSE x \in S : \A y \in S : x <= y

Drop(s, n) == SubSeq(s, n + 1, Len(s))

Take(s, n) == SubSeq(s, 1, n)

\* positions at which the literal lit occurs in b
Occurrences(b, lit) ==
    {i \in 1..(Len(b) - Len(lit) + 1) : SubSeq(b, i, i + Len(lit) - 1) = lit}

\* re.search of an escaped literal / the bytes "in" operator
Contains(b, lit) == Occurrences(b, lit) # {}

\* re.compile(rb'AUX\d').search(b)
AuxSearch(b) ==
    \E i \in Occurrences(b, AuxPrefix) :
        i + 3 <= Len(b) /\ b[i + 3] \in Digits

\* ---------------------------------------------------- DATA_REC_REGEX
\* CoreEnd taking any record type letter (D or E) for a data record
CoreEndAnyType(b, t) ==
    IF t + 2 <= Len(b) /\ SubSeq(b, t, t + 1) = <<ENQ, STX>>
       /\ b[t + 2] \in {ChD, ChE}
    THEN LET stops == {e \in (t + 3)..Len(b) : b[e] \in {CR, LF}}
         IN IF stops # {} /\ b[Min(stops)] = CR THEN Min(stops) ELSE 0
    ELSE 0

\* \x05\x02D[^\r\n]*\r anchored at t: index of the terminating CR, 0 if no match
CoreEnd(b, t) ==
    IF t + 2 <= Len(b) /\ SubSeq(b, t, t + 2) = <<ENQ, STX, ChD>>
    THEN LET stops == {e \in (t + 3)..Len(b) : b[e] \in {CR, LF}}
         IN IF stops # {} /\ b[Min(stops)] = CR THEN Min(stops) ELSE 0
    ELSE 0

\* (?:\x17)?\x05\x02D[^\r\n]*\r anchored at s: index of the last byte, 0 if none
MatchAt(b, s) ==
    IF b[s] = ETB THEN CoreEnd(b, s + 1) ELSE CoreEnd(b, s)

\* DATA_REC_REGEX.search(b): leftmost match as [start, end], start = 0 if none
DataRecSearch(b) ==
    LET starts == {s \in 1..Len(b) : MatchAt(b, s) > 0}
    IN IF starts = {} THEN [start |-> 0, end |-> 0]
       ELSE [start |-> Min(starts), end |-> MatchAt(b, Min(starts))]


\* -------------------------------------------------------------- state
VARIABLES
    pc,                \* position of run(): connect, wait_login, wait_aux,
                       \* wait_header, loop_top, recv, returned, raised
    connect_retries,   \* self.connect_retries
    progress_interval, \* self.progress_interval
    cancel_requested,  \* self._cancel_requested
    cancels,           \* number of cancel() calls made so far
    attempt,           \* loop variable of the connect loop
    last_exc,          \* last connect error (attempt number that raised it)
    sock,              \* [state: created | connected | closed, shutdown: BOOLEAN]
    out_handle,        \* out_file handle: unopened | open | closed
    dbg_handle,        \* dbg handle: unopened | open | closed
    wire,              \* bytes the peer has still to deliver
    peer_closed,       \* the peer has closed the connection
    sent,              \* byte strings passed to sock.sendall, in order
    buf,               \* local buf of the running/last _recv_until
    buffer,            \* RecvBuffer of the streaming loop
    out_file,          \* contents of the output artifact
    dbg,               \* contents of the debug capture
    total_written,
    last_report,
    statuses,          \* on_status notifications, in order
    progress,          \* on_progress notifications: [value, total] in order
    errors,            \* on_error notifications, in order
    completes,         \* number of on_complete notifications
    raised,            \* exception run() raised, "none" while it has not
    recs,              \* the records the peer's stream was built from
    cuts,              \* lengths of undelivered data at which a read may end
    waited,            \* seconds the current _recv_until has been blocked
    raising,           \* kinds of notification whose handler raises when called
    read_delays        \* seconds a recv of the handshake may block before data

vars == <<pc, connect_retries, progress_interval, cancel_requested, cancels,
          attempt, last_exc, sock, out_handle, dbg_handle, wire, peer_closed,
          sent, buf, buffer, out_file, dbg, total_written, last_report,
          statuses, progress, errors, completes, raised, recs, cuts,
          waited, raising, read_delays>>

\* ------------------------------------------------------ notifications
\* a status text; n is the attempt number of "connecting", else 0
Status(msg) == [msg |-> msg, n |-> 0]

AttemptStatus(k) == [msg |-> "connecting", n |-> k]

\* an exception; n is the connect attempt that raised it, else 0
Exc(kind, n) == [kind |-> kind, n |-> n]

NoExc == Exc("none", 0)

\* the four notifications, each with a handler of its own
NotificationKinds == {"status", "progress", "error", "complete"}

\* Escapes letting the exception of a raising handler through
EscapesUncaught(kind) == kind \in raising

\* try: self.on_<kind>(...) / except Exception: pass -- whether an exception
\* leaves _emit_<kind> when it calls the handler
Escapes(kind) == FALSE

\* _emit_status(msg): the handler is called once with msg
EmitStatus(log, msg) == Append(log, msg)

\* ReportProgress with "if" for "while": at most one report per payload
ReportProgressOnce(total, last, log) ==
    IF total >= last + progress_interval
    THEN [last_report |-> last + progress_interval,
          progress |-> Append(log, [value |-> last + progress_interval,
                                    total |-> total])]
    ELSE [last_report |-> last, progress |-> log]

\* while total_written >= last_report + interval: last_report += interval; emit
RECURSIVE ReportProgress(_, _, _)
ReportProgress(total, last, log) ==
    IF total >= last + progress_interval
    THEN ReportProgress(total, last + progress_interval,
                        Append(log, [value |-> last + progress_interval,
                                     total |-> total]))
    ELSE [last_report |-> last, progress |-> log]

\* ------------------------------------------------------- record drain
\* payload = rec[4:] if rec.startswith(b'\x17') else rec[3:]
PayloadOf(rec) == IF rec[1] = ETB THEN Drop(rec, 4) ELSE Drop(rec, 3)

\* if payload.endswith(b'\r'): payload = payload[:-1] + b'\r\n'
FixLineEnd(payload) ==
    IF payload # <<>> /\ payload[Len(payload)] = CR
    THEN Take(payload, Len(payload) - 1) \o <<CR, LF>>
    ELSE payload

\* del buffer[:m.end()]
Consume(b, m) == Drop(b, m.end)

\* the inner "while True" of the streaming loop, run to its break
RECURSIVE Drain(_)
Drain(st) ==
    LET m == DataRecSearch(st.buffer)
    IN IF m.start = 0 THEN st
       ELSE LET rec == SubSeq(st.buffer, m.start, m.end)
                payload == FixLineEnd(PayloadOf(rec))
                total == st.total_written + Len(payload)
                rp == ReportProgress(total, st.last_report, st.progress)
            IN Drain([buffer |-> Consume(st.buffer, m),
                      out_file |-> st.out_file \o payload,
                      total_written |-> total,
                      last_report |-> rp.last_report,
                      progress |-> rp.progress])

\* dbg.write(chunk) keeping only the latest chunk
CaptureLatest(d, chunk) == chunk

\* dbg.write(chunk): the capture grows by the chunk
Capture(d, chunk) == d \o chunk

\* ------------------------------------------------------------ cleanup
\* finally: sock.shutdown (errors ignored); sock.close()
SockCleanup == [state |-> "closed", shutdown |-> TRUE]

\* leaving the "with" block closes a handle that was opened
CloseHandle(h) == IF h = "open" THEN "closed" ELSE h

\* except Exception as e: _emit_error(e); raise -- after the with block and
\* before the finally clause; kind names the exception, which an exception
\* leaving _emit_error would replace
Fail(kind) ==
    /\ errors' = Append(errors, Exc(kind, 0))
    /\ raised' = IF Escapes("error") THEN Exc("handler", 0) ELSE Exc(kind, 0)
    /\ pc' = "raised"
    /\ out_handle' = CloseHandle(out_handle)
    /\ dbg_handle' = CloseHandle(dbg_handle)
    /\ sock' = SockCleanup

\* ----------------------------------------------------- streaming loop
\* StreamCheck without the test of the cancellation flag
StreamCheckNoCancel ==
    /\ pc = "loop_top"
    /\ pc' = "recv"
    /\ UNCHANGED <<errors, raised, out_handle, dbg_handle, sock, statuses,
                   completes, connect_retries, progress_interval,
                   cancel_requested, cancels, attempt, last_exc, wire,
                   peer_closed, sent, buf, buffer, out_file, dbg,
                   total_written, last_report, progress, recs, cuts,
                   waited, raising,
                   read_delays>>

\* top of the loop: if self._cancel_requested: raise
StreamCheck ==
    /\ pc = "loop_top"
    /\ IF cancel_requested
       THEN /\ Fail("cancelled")
            /\ UNCHANGED <<statuses, completes>>
       ELSE /\ pc' = "recv"
            /\ UNCHANGED <<errors, raised, out_handle, dbg_handle, sock,
                           statuses, completes>>
    /\ UNCHANGED <<connect_retries, progress_interval, cancel_requested,
                   cancels, attempt, last_exc, wire, peer_closed, sent, buf,
                   buffer, out_file, dbg, total_written, last_report,
                   progress, recs, cuts,
                   waited, raising,
                   read_delays>>

\* the rest of one iteration once sock.recv(4096) gave chunk: capture, append,
\* drain, end-of-transfer test; on the marker the success epilogue runs, in
\* which closing the files on leaving the with block either raises or does
\* not; an exception that left an _emit_* call would end run() on the spot
Iterate(chunk) ==
    \E st \in {Drain([buffer |-> buffer \o chunk, out_file |-> out_file,
                     total_written |-> total_written,
                     last_report |-> last_report, progress |-> progress])} :
       /\ dbg' = Capture(dbg, chunk)
       /\ buffer' = st.buffer
       /\ out_file' = st.out_file
       /\ total_written' = st.total_written
       /\ last_report' = st.last_report
       /\ progress' = st.progress
       /\ IF \/ Escapes("progress") /\ st.progress # progress
             \/ /\ Contains(st.buffer, EOT_MARKER)
                /\ Escapes("status") \/ Escapes("complete")
          THEN /\ Fail("handler")
               /\ UNCHANGED <<statuses, completes>>
          ELSE IF Contains(st.buffer, EOT_MARKER)
          THEN /\ statuses' = EmitStatus(statuses, Status("complete"))
               /\ completes' = completes + 1
               /\ \/ Fail("io_error")
                  \/ /\ pc' = "returned"
                     /\ out_handle' = CloseHandle(out_handle)
                     /\ dbg_handle' = CloseHandle(dbg_handle)
                     /\ sock' = SockCleanup
                     /\ UNCHANGED <<errors, raised>>
          ELSE /\ pc' = "loop_top"
               /\ UNCHANGED <<statuses, completes, errors, raised,
                              out_handle, dbg_handle, sock>>

\* sock.recv(4096) returns the next n bytes the peer sent
StreamRecvData ==
    /\ pc = "recv"
    /\ \E n \in 1..Len(wire) :
          /\ n <= 4096
          /\ Len(wire) - n \in cuts
          /\ wire' = Drop(wire, n)
          /\ Iterate(Take(wire, n))
    /\ UNCHANGED <<connect_retries, progress_interval, cancel_requested,
                   cancels, attempt, last_exc, peer_closed, sent, buf, recs,
                   cuts, waited, raising,
                   read_delays>>

\* StreamRecvEmpty taking an empty read for the end of the transfer
StreamRecvEmptyEnds ==
    /\ pc = "recv"
    /\ pc' = "returned"
    /\ statuses' = EmitStatus(statuses, Status("complete"))
    /\ completes' = completes + 1
    /\ out_handle' = CloseHandle(out_handle)
    /\ dbg_handle' = CloseHandle(dbg_handle)
    /\ sock' = SockCleanup
    /\ UNCHANGED <<connect_retries, progress_interval, cancel_requested,
                   cancels, attempt, last_exc, wire, peer_closed, sent, buf,
                   buffer, out_file, dbg, total_written, last_report,
                   progress, errors, raised, recs, cuts, waited, raising,
                   read_delays>>

\* sock.recv times out (chunk = b'') or, the peer having closed, returns b''
StreamRecvEmpty ==
    /\ pc = "recv"
    /\ Iterate(<<>>)
    /\ UNCHANGED <<connect_retries, progress_interval, cancel_requested,
                   cancels, attempt, last_exc, wire, peer_closed, sent, buf,
                   recs, cuts,
                   waited, raising,
                   read_delays>>

\* sock.recv raises an error other than socket.timeout
StreamRecvError ==
    /\ pc = "recv"
    /\ Fail("transport")
    /\ UNCHANGED <<connect_retries, progress_interval, cancel_requested,
                   cancels, attempt, last_exc, wire, peer_closed, sent, buf,
                   buffer, out_file, dbg, total_written, last_report,
                   statuses, progress, completes, recs, cuts,
                   waited, raising,
                   read_delays>>

\* cancel(), from another thread, at any time
Cancel ==
    /\ cancels < MaxCancels
    /\ cancels' = cancels + 1
    /\ cancel_requested' = TRUE
    /\ statuses' = EmitStatus(statuses, Status("cancel_requested"))
    /\ UNCHANGED <<pc, connect_retries, progress_interval, attempt, last_exc,
                   sock, out_handle, dbg_handle, wire, peer_closed, sent, buf,
                   buffer, out_file, dbg, total_written, last_report,
                   progress, errors, completes, raised, recs, cuts,
                   waited, raising,
                   read_delays>>

\* the peer closes the connection; what it had not delivered is lost
PeerClose ==
    /\ ~peer_closed
    /\ pc \notin {"returned", "raised"}
    /\ peer_closed' = TRUE
    /\ wire' = <<>>
    /\ UNCHANGED <<pc, connect_retries, progress_interval, cancel_requested,
                   cancels, attempt, last_exc, sock, out_handle, dbg_handle,
                   sent, buf, buffer, out_file, dbg, total_written,
                   last_report, statuses, progress, errors, completes, raised,
                   recs, cuts,
                   waited, raising,
                   read_delays>>


\* ------------------------------------------------------------ connect
\* MoreAttempts off by one: a retry is announced after the last attempt too
MoreAttemptsInclusive(a) == a <= connect_retries

\* if attempt < self.connect_retries
MoreAttempts(a) == a < connect_retries

\* one pass of the connect loop; on success the code runs on to the first
\* blocking read: open both files, send the login, start waiting for 'login:'.
\* opened says which open() raises ("out", "dbg") if any; a sendall may
\* raise only after the peer has closed; an exception leaving the
\* _emit_status of line 153 would be taken for a failed connect (line 156)
Connect ==
    /\ pc = "connect"
    /\ \E ok \in (IF Escapes("status") THEN {FALSE} ELSE BOOLEAN),
          opened \in {"both", "out", "none"},
          sendFails \in (IF peer_closed THEN {0, 1} ELSE {0}) :
          LET st1 == EmitStatus(statuses, AttemptStatus(attempt))
              st2 == EmitStatus(st1, Status("connected"))
          IN IF ~ok
             THEN /\ last_exc' = attempt
                  /\ IF MoreAttempts(attempt)
                     THEN /\ statuses' = EmitStatus(st1, Status("retry"))
                          /\ attempt' = attempt + 1
                          /\ UNCHANGED <<pc, errors, raised>>
                     ELSE /\ statuses' = st1
                          /\ errors' = Append(errors, Exc("connect", attempt))
                          /\ raised' = IF Escapes("error")
                                       THEN Exc("handler", 0)
                                       ELSE Exc("connect", attempt)
                          /\ pc' = "raised"
                          /\ UNCHANGED attempt
                  /\ UNCHANGED <<sock, out_handle, dbg_handle, sent, buf>>
             ELSE /\ UNCHANGED <<attempt, last_exc>>
                  /\ IF opened # "both"
                     THEN /\ statuses' = st2
                          /\ errors' = Append(errors, Exc("io_error", 0))
                          /\ raised' = Exc("io_error", 0)
                          /\ pc' = "raised"
                          /\ out_handle' =
                                IF opened = "out" THEN "closed" ELSE "unopened"
                          /\ dbg_handle' = "unopened"
                          /\ sock' = SockCleanup
                          /\ UNCHANGED <<sent, buf>>
                     ELSE IF sendFails = 1 /\ peer_closed
                     THEN /\ statuses' = EmitStatus(st2, Status("login"))
                          /\ errors' = Append(errors, Exc("transport", 0))
                          /\ raised' = Exc("transport", 0)
                          /\ pc' = "raised"
                          /\ out_handle' = "closed"
                          /\ dbg_handle' = "closed"
                          /\ sock' = SockCleanup
                          /\ UNCHANGED <<sent, buf>>
                     ELSE /\ statuses' = EmitStatus(st2, Status("login"))
                          /\ sock' = [state |-> "connected", shutdown |-> FALSE]
                          /\ out_handle' = "open"
                          /\ dbg_handle' = "open"
                          /\ sent' = Append(sent, LoginCmd)
                          /\ buf' = <<>>
                          /\ pc' = "wait_login"
                          /\ UNCHANGED <<errors, raised>>
    /\ UNCHANGED <<connect_retries, progress_interval, cancel_requested,
                   cancels, wire, peer_closed, buffer, out_file, dbg,
                   total_written, last_report, progress, completes, recs, cuts,
                   waited, raising,
                   read_delays>>

\* ---------------------------------------------------------- handshake
\* BusySeen giving way to the header marker when both were received
BusySeenUnlessHeader(b) ==
    Contains(b, SAVELOAD_IN_PROGRESS) /\ ~Contains(b, HeaderMarker)

\* if SAVELOAD_IN_PROGRESS.search(buf)
BusySeen(b) == Contains(b, SAVELOAD_IN_PROGRESS)

\* the pattern the _recv_until of the current wait step searches for
PatternFound(step, b) ==
    CASE step = "wait_login" -> Contains(b, LoginPrompt)
      [] step = "wait_aux" -> AuxSearch(b)
      [] step = "wait_header" ->
            Contains(b, SAVELOAD_IN_PROGRESS) \/ Contains(b, HeaderMarker)

\* the first status run() emits once the _recv_until of step has returned b
StatusAfter(step, b) ==
    CASE step = "wait_login" -> "aux"
      [] step = "wait_aux" -> "save"
      [] step = "wait_header" -> IF BusySeen(b) THEN "busy" ELSE "handshake"

\* what run() does once the _recv_until of the current step has returned b,
\* up to the next blocking read; sendFails = k > 0: the k-th sendall of this
\* stretch raises, which it may only after the peer has closed; an exception
\* that left _emit_status would end run() like any other raised in the try
AfterWait(b, sendFails) ==
    IF Escapes("status")
    THEN /\ statuses' = EmitStatus(statuses, Status(StatusAfter(pc, b)))
         /\ Fail("handler")
         /\ buf' = b
         /\ UNCHANGED sent
    ELSE
    CASE pc = "wait_login" ->
            \* _wait_for(AUX\d): status, then a fresh _recv_until
            /\ statuses' = EmitStatus(statuses, Status("aux"))
            /\ buf' = <<>>
            /\ pc' = "wait_aux"
            /\ UNCHANGED <<sent, errors, raised, out_handle, dbg_handle, sock>>
      [] pc = "wait_aux" ->
            \* status, sendall(cmd), then _recv_until(combined) with its status
            IF sendFails = 1 /\ peer_closed
            THEN /\ statuses' = EmitStatus(statuses, Status("save"))
                 /\ Fail("transport")
                 /\ buf' = b
                 /\ UNCHANGED sent
            ELSE /\ statuses' = EmitStatus(EmitStatus(statuses, Status("save")),
                                           Status("header"))
                 /\ sent' = Append(sent, SaveCmd)
                 /\ buf' = <<>>
                 /\ pc' = "wait_header"
                 /\ UNCHANGED <<errors, raised, out_handle, dbg_handle, sock>>
      [] pc = "wait_header" ->
            /\ buf' = b
            /\ IF BusySeen(b)
               THEN /\ statuses' = EmitStatus(statuses, Status("busy"))
                    /\ Fail("busy")
                    /\ UNCHANGED sent
               ELSE IF sendFails > 0 /\ peer_closed
               THEN /\ statuses' = EmitStatus(statuses, Status("handshake"))
                    /\ Fail("transport")
                    /\ sent' = IF sendFails = 2 THEN Append(sent, ACK_BYTE)
                                ELSE sent
               ELSE /\ statuses' =
                          EmitStatus(EmitStatus(statuses, Status("handshake")),
                                     Status("receiving"))
                    /\ sent' = sent \o <<ACK_BYTE, SECOND_HEADER>>
                    /\ pc' = "loop_top"
                    /\ UNCHANGED <<errors, raised, out_handle, dbg_handle,
                                   sock>>

HandshakeSteps == {"wait_login", "wait_aux", "wait_header"}

\* recv_timeout: float = 10.0, the timeout set on the socket by _recv_until
RECV_TIMEOUT == 10

\* a recv that returns data has blocked for less than the socket's timeout:
\* with a slow peer it returns at once or a second before the timeout fires
SlowReads == {0, RECV_TIMEOUT - 1}

\* which sendall of a stretch may raise: none while the peer is connected
SendFailures == IF peer_closed THEN 0..2 ELSE {0}

\* _recv_until: sock.recv(1024) returns the next n bytes; they are captured and
\* appended to buf, and the loop test decides whether the wait step is over
WaitRecvData ==
    /\ pc \in HandshakeSteps
    /\ \E n \in 1..Len(wire), sendFails \in SendFailures, w \in read_delays :
          /\ n <= 1024
          /\ Len(wire) - n \in cuts
          /\ waited + w <= MaxSlowReads * (RECV_TIMEOUT - 1)
          /\ wire' = Drop(wire, n)
          /\ dbg' = Capture(dbg, Take(wire, n))
          /\ IF PatternFound(pc, buf \o Take(wire, n))
             THEN /\ AfterWait(buf \o Take(wire, n), sendFails)
                  /\ waited' = 0
             ELSE /\ buf' = buf \o Take(wire, n)
                  /\ waited' = waited + w
                  /\ UNCHANGED <<pc, statuses, sent, errors, raised,
                                 out_handle, dbg_handle, sock>>
    /\ UNCHANGED <<connect_retries, progress_interval, cancel_requested,
                   cancels, attempt, last_exc, peer_closed, buffer, out_file,
                   total_written, last_report, progress, completes, recs,
                   cuts, raising,
                   read_delays>>

\* _recv_until: sock.recv returns b'' (peer closed): "if not chunk: break", and
\* run() goes on as if the pattern had been found
WaitRecvClosed ==
    /\ pc \in HandshakeSteps
    /\ peer_closed /\ wire = <<>>
    /\ \E sendFails \in SendFailures : AfterWait(buf, sendFails)
    /\ waited' = 0
    /\ UNCHANGED <<connect_retries, progress_interval, cancel_requested,
                   cancels, attempt, last_exc, wire, peer_closed, buffer,
                   out_file, dbg, total_written, last_report, progress,
                   completes, recs, cuts, raising,
                   read_delays>>

\* WaitRecvTimeout noticing the cancellation flag when the read times out
WaitRecvTimeoutCancellable ==
    /\ pc \in HandshakeSteps
    /\ Fail(IF cancel_requested THEN "cancelled" ELSE "timeout")
    /\ waited' = 0
    /\ UNCHANGED <<connect_retries, progress_interval, cancel_requested,
                   cancels, attempt, last_exc, wire, peer_closed, sent, buf,
                   buffer, out_file, dbg, total_written, last_report,
                   statuses, progress, completes, recs, cuts, raising,
                   read_delays>>

\* _recv_until: sock.recv raises socket.timeout, which nothing catches before
\* the except clause of run()
WaitRecvTimeout ==
    /\ pc \in HandshakeSteps
    /\ Fail("timeout")
    /\ waited' = 0
    /\ UNCHANGED <<connect_retries, progress_interval, cancel_requested,
                   cancels, attempt, last_exc, wire, peer_closed, sent, buf,
                   buffer, out_file, dbg, total_written, last_report,
                   statuses, progress, completes, recs, cuts, raising,
                   read_delays>>

\* _recv_until: sock.recv raises another transport error
WaitRecvError ==
    /\ pc \in HandshakeSteps
    /\ Fail("transport")
    /\ waited' = 0
    /\ UNCHANGED <<connect_retries, progress_interval, cancel_requested,
                   cancels, attempt, last_exc, wire, peer_closed, sent, buf,
                   buffer, out_file, dbg, total_written, last_report,
                   statuses, progress, completes, recs, cuts, raising,
                   read_delays>>


\* ------------------------------------------------------ peer scripts
\* one well-formed data record as the peer sends it
Encode(r) ==
    (IF r.esc THEN <<ETB>> ELSE <<>>) \o <<ENQ, STX, ChD>> \o r.payload \o <<CR>>

RECURSIVE EncodeAll(_)
EncodeAll(rs) ==
    IF rs = <<>> THEN <<>> ELSE Encode(Head(rs)) \o EncodeAll(Tail(rs))

\* N well-formed records followed by the end-of-transfer marker
Stream(rs) == EncodeAll(rs) \o EOT_MARKER

SeqsUpTo(S, n) == UNION {[1..k -> S] : k \in 0..n}

\* payloads of the streaming runs: empty, plain, one holding the record-start
\* marker, one holding the end-of-transfer marker
Payloads == {<<>>, <<104>>, <<ENQ, STX, ChD>>, EOT_MARKER}

Records == [esc : BOOLEAN, payload : Payloads]

\* payloads of the whole-session runs
RunRecords == [esc : BOOLEAN, payload : {<<104>>}]

\* b'AUX1'
AuxPrompt == AuxPrefix \o <<49>>

\* what the peer may answer to the save command, as the parts it sends
SaveAnswers ==
    {<<HeaderMarker>>, <<SAVELOAD_IN_PROGRESS>>,
     <<SAVELOAD_IN_PROGRESS, HeaderMarker>>,
     <<HeaderMarker, SAVELOAD_IN_PROGRESS>>}

RECURSIVE Flatten(_)
Flatten(parts) ==
    IF parts = <<>> THEN <<>> ELSE Head(parts) \o Flatten(Tail(parts))

\* the records of rs, each as a part of its own
RECURSIVE EncodeParts(_)
EncodeParts(rs) ==
    IF rs = <<>> THEN <<>> ELSE <<Encode(Head(rs))>> \o EncodeParts(Tail(rs))

\* reads may end after each part the peer sends and in the middle of each
RECURSIVE PartCuts(_)
PartCuts(parts) ==
    IF parts = <<>> THEN {0}
    ELSE LET rest == Len(Flatten(Tail(parts)))
         IN {rest, rest + (Len(Head(parts)) \div 2)} \cup PartCuts(Tail(parts))

\* the default progress interval, 10 KB
DEFAULT_PROGRESS_INTERVAL == 10240

\* the statuses of a session that has reached the streaming loop in one attempt
HandshakeStatuses ==
    <<AttemptStatus(1), Status("connected"), Status("login"), Status("aux"),
      Status("save"), Status("header"), Status("handshake"),
      Status("receiving")>>

\* ------------------------------------------------------ specifications
\* run() is entered: nothing connected, opened, sent, read or notified yet
AtEntry ==
    /\ pc = "connect"
    /\ cancel_requested = FALSE
    /\ cancels = 0
    /\ attempt = 1
    /\ last_exc = 0
    /\ sock = [state |-> "created", shutdown |-> FALSE]
    /\ out_handle = "unopened"
    /\ dbg_handle = "unopened"
    /\ peer_closed = FALSE
    /\ sent = <<>>
    /\ buf = <<>>
    /\ buffer = <<>>
    /\ out_file = <<>>
    /\ dbg = <<>>
    /\ total_written = 0
    /\ last_report = 0
    /\ statuses = <<>>
    /\ progress = <<>>
    /\ errors = <<>>
    /\ completes = 0
    /\ raised = NoExc
    /\ waited = 0

\* a whole session, from the first connect attempt
Init ==
    /\ AtEntry
    /\ connect_retries \in 1..MaxRetries
    /\ progress_interval = DEFAULT_PROGRESS_INTERVAL
    /\ recs \in SeqsUpTo(RunRecords, MaxRunRecs)
    /\ \E a \in SaveAnswers :
          LET parts == <<LoginPrompt, AuxPrompt>> \o a \o EncodeParts(recs)
                          \o <<EOT_MARKER>>
          IN /\ wire = Flatten(parts)
             /\ cuts = PartCuts(parts)
    /\ raising = {}
    /\ read_delays = {0}

\* the state in which a session enters the streaming loop after a handshake
\* whose reads ended at the marker boundaries
AtLoopStart ==
    /\ pc = "loop_top"
    /\ connect_retries = 1
    /\ cancel_requested = FALSE
    /\ cancels = 0
    /\ attempt = 1
    /\ last_exc = 0
    /\ sock = [state |-> "connected", shutdown |-> FALSE]
    /\ out_handle = "open"
    /\ dbg_handle = "open"
    /\ peer_closed = FALSE
    /\ sent = <<LoginCmd, SaveCmd, ACK_BYTE, SECOND_HEADER>>
    /\ buf = HeaderMarker
    /\ buffer = <<>>
    /\ out_file = <<>>
    /\ dbg = LoginPrompt \o AuxPrompt \o HeaderMarker
    /\ total_written = 0
    /\ last_report = 0
    /\ statuses = HandshakeStatuses
    /\ progress = <<>>
    /\ errors = <<>>
    /\ completes = 0
    /\ raised = NoExc
    /\ waited = 0
    /\ raising = {}
    /\ read_delays = {0}

\* the streaming loop fed a stream of well-formed records
InitStream ==
    /\ AtLoopStart
    /\ progress_interval \in 1..MaxInterval
    /\ recs \in SeqsUpTo(Records, MaxRecs)
    /\ wire = Stream(recs)
    /\ cuts = 0..Len(wire)

NextStream ==
    \/ StreamCheck
    \/ StreamRecvData
    \/ StreamRecvEmpty
    \/ StreamRecvError
    \/ Cancel

Next ==
    \/ Connect
    \/ WaitRecvData
    \/ WaitRecvClosed
    \/ WaitRecvTimeout
    \/ WaitRecvError
    \/ StreamCheck
    \/ StreamRecvData
    \/ StreamRecvEmpty
    \/ StreamRecvError
    \/ Cancel
    \/ PeerClose

Spec == Init /\ [][Next]_vars

SpecStream == InitStream /\ [][NextStream]_vars


\* the scenario of the spec: 'hello' as a D record, 'world' under the letter E,
\* then the end-of-transfer marker
Hello == <<104, 101, 108, 108, 111>>

World == <<119, 111, 114, 108, 100>>

InitScenario ==
    /\ AtLoopStart
    /\ progress_interval = DEFAULT_PROGRESS_INTERVAL
    /\ recs = <<[esc |-> FALSE, payload |-> Hello]>>
    /\ wire = <<ENQ, STX, ChD>> \o Hello \o <<CR>>
                \o <<ENQ, STX, ChE>> \o World \o <<CR>> \o EOT_MARKER
    /\ cuts = 0..Len(wire)

SpecScenario == InitScenario /\ [][NextStream]_vars

\* ============================================================ claims
\* the decoded payloads of rs: each payload followed by CR LF
RECURSIVE Expected(_)
Expected(rs) ==
    IF rs = <<>> THEN <<>>
    ELSE Head(rs).payload \o <<CR, LF>> \o Expected(Tail(rs))

\* the drain applied to b delivered as one chunk
OneChunk(b) ==
    Drain([buffer |-> b, out_file |-> <<>>, total_written |-> 0,
           last_report |-> 0, progress |-> <<>>])

\* the data bytes the streaming loop has read so far (SpecStream, SpecScenario)
StreamRead == Drop(dbg, Len(LoginPrompt \o AuxPrompt \o HeaderMarker))

\* the leading records of recs that StreamRead holds whole
WholeRecs ==
    Take(recs, Cardinality({j \in 1..Len(recs) :
                              Len(EncodeAll(Take(recs, j))) <= Len(StreamRead)}))

\* C1: for every stream of N well-formed records followed by the
\* end-of-transfer marker and every chunking, run() ends successfully with the
\* artifact equal to the N payloads, each followed by CR LF, and total_written
\* equal to the artifact's length; it fails only when cancelled or on an
\* injected transport or file error.
C1_RecordsDecoded ==
    /\ pc = "returned" =>
          /\ out_file = Expected(recs)
          /\ total_written = Len(out_file)
    /\ pc = "raised" => raised.kind \in {"cancelled", "transport", "io_error"}

\* C2: fragmentation independence: however a well-formed stream is split into
\* deliveries, the session ends with the artifact that the stream delivered as
\* one chunk gives.
C2_FragmentationIndependent ==
    pc = "returned" => out_file = OneChunk(Stream(recs)).out_file

\* C4: when the loop-top check runs with the cancellation flag set, the run
\* fails there with the cancelled failure and writes nothing more; the flag is
\* never cleared; and the artifact of a cancelled run is exactly the decoded
\* payloads of the records received whole, never part of a record.
C4_CancelAtNextCheck ==
    /\ [][pc = "loop_top" /\ cancel_requested /\ pc' # pc =>
            /\ pc' = "raised"
            /\ raised'.kind = "cancelled"
            /\ out_file' = out_file]_vars
    /\ [][cancel_requested => cancel_requested']_vars
    /\ [](raised.kind = "cancelled" =>
            /\ out_file = Expected(WholeRecs)
            /\ total_written = Len(out_file))

\* C4 witness: a run cancelled after a record was drained, with part of the
\* next record waiting in the buffer
C4_Witness ==
    /\ raised.kind = "cancelled"
    /\ out_file # <<>>
    /\ buffer # <<>>

\* C6: the progress notifications are the consecutive multiples 1*i, 2*i, ...
\* of the interval i, each at most total_written when it was emitted, and
\* there are floor(total_written / i) of them.
C6_ProgressMultiples ==
    /\ \A k \in 1..Len(progress) :
          /\ progress[k].value = k * progress_interval
          /\ progress[k].value <= progress[k].total
          /\ progress[k].total <= total_written
    /\ Len(progress) = total_written \div progress_interval
    /\ last_report = Len(progress) * progress_interval

\* C6 witness: a finished run whose payload writes crossed several boundaries
\* and left a remainder
C6_Witness ==
    /\ pc = "returned"
    /\ Len(progress) >= 3
    /\ progress_interval > 1
    /\ total_written % progress_interval # 0

\* C10 as stated: the scenario yields 'hello' CR LF 'world' CR LF and
\* total_written = 12.
C10_AsStated ==
    pc = "returned" =>
        /\ out_file = Hello \o <<CR, LF>> \o World \o <<CR, LF>>
        /\ total_written = 12

\* C10 amended: the scenario yields 'hello' CR LF and total_written = 7; the
\* bytes under the letter E are not a data record.
C10_HelloOnly ==
    pc = "returned" =>
        /\ out_file = Hello \o <<CR, LF>>
        /\ total_written = 7

\* C10 witness: the scenario's run has returned, all of its bytes read
C10_Witness ==
    /\ pc = "returned"
    /\ wire = <<>>


\* position of the first occurrence of lit in b, 0 if there is none
FirstAt(b, lit) ==
    IF Contains(b, lit) THEN Min(Occurrences(b, lit)) ELSE 0

\* the bytes of b that follow its first backup-header marker
AfterHeader(b) ==
    IF Contains(b, HeaderMarker)
    THEN Drop(b, FirstAt(b, HeaderMarker) + Len(HeaderMarker) - 1)
    ELSE <<>>

\* the busy marker occurs in b, and before any header marker
BusyFirst(b) ==
    /\ Contains(b, SAVELOAD_IN_PROGRESS)
    /\ Contains(b, HeaderMarker) =>
          FirstAt(b, SAVELOAD_IN_PROGRESS) < FirstAt(b, HeaderMarker)

\* the statuses of log with text msg
StatusCount(log, msg) == Cardinality({k \in 1..Len(log) : log[k].msg = msg})

\* the attempt numbers that log's connecting statuses name, in order
RECURSIVE AttemptsNamed(_)
AttemptsNamed(log) ==
    IF log = <<>> THEN <<>>
    ELSE IF Head(log).msg = "connecting"
         THEN <<Head(log).n>> \o AttemptsNamed(Tail(log))
         ELSE AttemptsNamed(Tail(log))

\* C3: no byte read after the backup-header marker is lost: a session that
\* returns has written every record found in the bytes it read after the
\* marker, those that came in the same read as the marker included.
C3_NoLossAfterHeader ==
    pc = "returned" => out_file = OneChunk(AfterHeader(dbg)).out_file

\* C5: when the wait step after the save command has seen the busy marker
\* before any header marker, the session has failed with the busy failure,
\* reported once; the acknowledgement byte and the secondary header were not
\* sent, the streaming loop was not entered and the artifact is empty.
C5_BusyAborts ==
    Len(sent) >= 2 /\ pc # "wait_header" /\ BusyFirst(buf) =>
        /\ pc = "raised"
        /\ raised = Exc("busy", 0)
        /\ errors = <<Exc("busy", 0)>>
        /\ sent = <<LoginCmd, SaveCmd>>
        /\ StatusCount(statuses, "receiving") = 0
        /\ buffer = <<>>
        /\ out_file = <<>>
        /\ total_written = 0

\* C5 witness: the busy marker and then the header marker were read in the
\* wait step, and the session has ended
C5_Witness ==
    /\ pc = "raised"
    /\ BusyFirst(buf)
    /\ Contains(buf, HeaderMarker)

\* C7: a run that fails emits exactly one error notification and no
\* completion notification; a run that succeeds emits exactly one completion
\* notification and no error notification.
C7_OneNotification ==
    /\ pc = "raised" => Len(errors) = 1 /\ completes = 0
    /\ pc = "returned" => errors = <<>> /\ completes = 1

\* C8: when run() has returned or raised, the transport has been shut down and
\* closed and no file handle is left open.
C8_CleanupOnExit ==
    pc \in {"returned", "raised"} =>
        /\ sock = [state |-> "closed", shutdown |-> TRUE]
        /\ out_handle # "open"
        /\ dbg_handle # "open"

\* C9: with connect_retries = R, the attempts made are numbered 1, 2, ... and
\* are at most R, each announced by one status; while connecting and once
\* connected after k failures there are exactly k retry statuses, and the
\* session has gone on to the handshake; after R failures there are exactly
\* R - 1 retry statuses, no attempt R + 1, and the error raised is that of
\* attempt R.
C9_BoundedRetries ==
    LET named == AttemptsNamed(statuses)
        retries == StatusCount(statuses, "retry")
    IN /\ Len(named) <= connect_retries
       /\ \A k \in 1..Len(named) : named[k] = k
       /\ pc = "connect" => Len(named) = attempt - 1 /\ retries = Len(named)
       /\ pc # "connect" /\ raised.kind # "connect" =>
             /\ last_exc = Len(named) - 1
             /\ retries = last_exc
             /\ StatusCount(statuses, "connected") = 1
       /\ raised.kind = "connect" =>
             /\ pc = "raised"
             /\ Len(named) = connect_retries
             /\ retries = connect_retries - 1
             /\ raised = Exc("connect", connect_retries)
             /\ errors = <<raised>>
             /\ StatusCount(statuses, "connected") = 0

\* C9 witness: connected at the third attempt after two failures, and on to
\* the handshake
C9_Witness ==
    /\ connect_retries = 3
    /\ last_exc = 2
    /\ StatusCount(statuses, "retry") = 2
    /\ pc = "wait_aux"


\* sendall(msg) has been called with msg
Sent(msg) == \E i \in 1..Len(sent) : sent[i] = msg

\* C13: the handshake is strictly linear: a wait step completes successfully
\* only if the bytes it accumulated hold its marker, so the save command is
\* sent only after the login prompt and the 'AUX<digit>' prompt were received,
\* and the acknowledge byte and the second header only after the header marker
\* was received.
C13_MarkersBeforeSends ==
    /\ Sent(SaveCmd) =>
          Contains(dbg, LoginPrompt) /\ AuxSearch(dbg)
    /\ Sent(ACK_BYTE) => Contains(dbg, HeaderMarker)
    /\ Sent(SECOND_HEADER) => Contains(dbg, HeaderMarker)

\* C16: the fork after the save command is decided by the marker that occurs
\* first in the received bytes, however they were chunked: the session fails
\* busy only if the busy marker came first, and goes on to the acknowledge
\* when the header marker came first.
C16_FirstMarkerDecides ==
    /\ raised.kind = "busy" => BusyFirst(buf)
    /\ Sent(ACK_BYTE) => ~BusyFirst(buf)

\* a whole session with a peer that may be slow to send each chunk
InitSlow ==
    /\ AtEntry
    /\ connect_retries = 1
    /\ progress_interval = DEFAULT_PROGRESS_INTERVAL
    /\ recs = <<>>
    /\ \E a \in SaveAnswers :
          LET parts == <<LoginPrompt, AuxPrompt>> \o a \o <<EOT_MARKER>>
          IN /\ wire = Flatten(parts)
             /\ cuts = 0..Len(wire)
    /\ raising = {}
    /\ read_delays = SlowReads

SpecSlow == InitSlow /\ [][Next]_vars

\* C19: every handshake wait step has an absolute deadline of recv_timeout
\* seconds: a step whose marker has not arrived by then fails with the
\* timeout, even if the peer keeps delivering bytes that do not match at
\* intervals shorter than the timeout.
C19_AbsoluteDeadline ==
    pc \in HandshakeSteps => waited <= RECV_TIMEOUT

\* the steps of the thread that executes run() in the streaming loop: every
\* blocking call in them returns or raises within the socket's timeout, so
\* the thread keeps stepping
LoopStep ==
    \/ StreamCheck
    \/ StreamRecvData
    \/ StreamRecvEmpty
    \/ StreamRecvError

NextDisconnect ==
    \/ StreamCheck
    \/ StreamRecvData
    \/ StreamRecvEmpty
    \/ StreamRecvError
    \/ Cancel
    \/ PeerClose

\* the streaming loop with a peer that may close the connection at any time,
\* the thread of run() never starved
SpecDisconnect == InitStream /\ [][NextDisconnect]_vars /\ WF_vars(LoopStep)

\* C11: a mid-stream disconnect is fatal: when the peer closes the connection
\* during the streaming loop before the end-of-transfer marker was received,
\* run() eventually ends with a failure instead of going on for ever.
C11_DisconnectFails ==
    (peer_closed /\ pc \in {"loop_top", "recv"}) ~> (pc = "raised")

\* what the peer may put on the wire during the transfer: a data record, plain
\* or with the escape prefix, the end-of-transfer marker, a byte of no record
StreamItems == {Encode(r) : r \in RunRecords} \cup {EOT_MARKER, <<104>>}

\* the streaming loop fed any sequence of such items, chunked freely
InitItems ==
    /\ AtLoopStart
    /\ progress_interval = DEFAULT_PROGRESS_INTERVAL
    /\ recs = <<>>
    /\ \E items \in SeqsUpTo(StreamItems, MaxItems) : wire = Flatten(items)
    /\ cuts = 0..Len(wire)

SpecItems == InitItems /\ [][NextStream]_vars

\* C14: once the end-of-transfer marker has been received, the loop ends
\* successfully at the end of that same iteration, whatever follows the marker
\* in the buffer, a complete data record included: the loop never starts
\* another iteration after the marker was read.
C14_EndsAtMarker ==
    pc \in {"loop_top", "recv"} => ~Contains(StreamRead, EOT_MARKER)

\* b is a concatenation of whole data records
RECURSIVE OnlyRecords(_)
OnlyRecords(b) ==
    \/ b = <<>>
    \/ /\ MatchAt(b, 1) > 0
       /\ OnlyRecords(Drop(b, MatchAt(b, 1)))

\* C17: the drain removes from the front of the buffer exactly the spans of
\* the matched records and nothing else: the buffer is what is left of the
\* bytes read, in their order, and every byte that has left it was part of a
\* record whose payload was written.
C17_OnlyRecordsRemoved ==
    LET k == Len(StreamRead) - Len(buffer)
    IN /\ buffer = Drop(StreamRead, k)
       /\ OnlyRecords(Take(StreamRead, k))

\* C15: an iteration of the streaming loop whose read times out or returns no
\* bytes leaves the buffer, the artifact, the capture, total_written and
\* last_report as they were and goes back to the top of the loop; and run()
\* only returns from an iteration that leaves the end-of-transfer marker in the
\* drained buffer.
C15_EmptyReadIdle ==
    /\ [][pc = "recv" /\ pc' # pc /\ wire' = wire
             /\ raised'.kind # "transport" =>
            /\ pc' = "loop_top"
            /\ UNCHANGED <<buffer, out_file, dbg, total_written,
                           last_report>>]_vars
    /\ [](pc = "returned" => Contains(buffer, EOT_MARKER))

\* C15 witness: the peer has closed with part of a record waiting in the
\* buffer behind a written one, and the loop is still running
C15_Witness ==
    /\ pc = "loop_top"
    /\ peer_closed
    /\ ~cancel_requested
    /\ out_file # <<>>
    /\ buffer # <<>>

\* everything the peer of a whole session sends when it answers the save
\* command with a
Script(a) ==
    Flatten(<<LoginPrompt, AuxPrompt>> \o a \o EncodeParts(recs)
              \o <<EOT_MARKER>>)

\* p is b or the beginning of b
IsPrefix(p, b) == Len(p) <= Len(b) /\ p = Take(b, Len(p))

\* C18: at every point of a session, in the wait steps and in the streaming
\* loop alike, the debug capture is the concatenation, in arrival order and
\* unmodified, of the chunks read so far: exactly the bytes of the peer's
\* script that are no longer on the wire.
C18_CaptureIsWhatWasRead ==
    \E a \in SaveAnswers :
       /\ IsPrefix(dbg, Script(a))
       /\ ~peer_closed => dbg \o wire = Script(a)

\* C18 witness: a session that returned after reading a prompt, a header and
\* a record, with all of it in the capture
C18_Witness ==
    /\ pc = "returned"
    /\ recs # <<>>
    /\ out_file # <<>>
    /\ dbg = Script(<<HeaderMarker>>)

\* cancel() was called before the session entered the streaming loop
CancelBeforeLoop ==
    \E i, j \in 1..Len(statuses) :
       /\ i < j
       /\ statuses[i].msg = "cancel_requested"
       /\ statuses[j].msg = "receiving"

\* C20: the cancellation flag is read only at the top of a streaming
\* iteration: a cancel() made before or during the connect or the handshake
\* does not interrupt them (the login, the save command, the acknowledge byte
\* and the second header are all sent) and the run then fails cancelled at the
\* first iteration with nothing read or written; a cancelled failure is only
\* ever raised from the loop; and a cancel() made after run() has returned
\* changes nothing of its outcome.
C20_CancelOnlyAtLoopTop ==
    /\ [](CancelBeforeLoop =>
            /\ pc \in {"loop_top", "raised"}
            /\ pc = "raised" => raised.kind = "cancelled"
            /\ sent = <<LoginCmd, SaveCmd, ACK_BYTE, SECOND_HEADER>>
            /\ total_written = 0
            /\ out_file = <<>>
            /\ buffer = <<>>)
    /\ [](raised.kind = "cancelled" => StatusCount(statuses, "receiving") = 1)
    /\ [][pc = "returned" =>
            /\ pc' = "returned"
            /\ UNCHANGED <<raised, errors, completes, out_file,
                           total_written>>]_vars

\* C20 witness: a cancel() made before the loop ended the run at its first
\* iteration, with the peer's data still unread
C20_Witness ==
    /\ CancelBeforeLoop
    /\ raised.kind = "cancelled"
    /\ wire # <<>>

\* which handlers raise when called: none, one kind, or all four
HandlerFaults ==
    {{}, NotificationKinds} \cup {{k} : k \in NotificationKinds}

\* a whole session with handlers that may raise, a peer that answers the save
\* command with the header, and progress reported for every byte written
InitHandlers ==
    /\ AtEntry
    /\ connect_retries = 2
    /\ progress_interval = 1
    /\ recs \in SeqsUpTo(RunRecords, MaxRunRecs)
    /\ LET parts == <<LoginPrompt, AuxPrompt, HeaderMarker>>
                       \o EncodeParts(recs) \o <<EOT_MARKER>>
       IN /\ wire = Flatten(parts)
          /\ cuts = PartCuts(parts)
    /\ raising \in HandlerFaults
    /\ read_delays = {0}

SpecHandlers == InitHandlers /\ [][Next]_vars

\* C12: the handlers are best-effort: whichever of them raise, no handler's
\* exception leaves run() or is reported as the session's error, and the
\* session goes on as it does with handlers that return: a failed run has
\* reported its own failure last, a returned run has sent the whole handshake,
\* announced its completion once and written every byte it counted, and
\* progress is still reported for every interval written.
C12_HandlersBestEffort ==
    /\ raised.kind # "handler"
    /\ \A i \in 1..Len(errors) : errors[i].kind # "handler"
    /\ pc = "raised" => errors # <<>> /\ errors[Len(errors)] = raised
    /\ pc = "returned" =>
          /\ sent = <<LoginCmd, SaveCmd, ACK_BYTE, SECOND_HEADER>>
          /\ completes = 1
          /\ StatusCount(statuses, "complete") = 1
          /\ total_written = Len(out_file)
    /\ Len(progress) = total_written \div progress_interval

\* C12 witness: a session all of whose handlers raise has returned after
\* status, progress and completion notifications
C12_Witness ==
    /\ raising = NotificationKinds
    /\ pc = "returned"
    /\ out_file # <<>>
    /\ progress # <<>>
    /\ completes = 1
====
